---- MODULE Spec2Model ----
(***************************************************************************)
(* Model of face-giffer: chronological sequencing (src/preprocessing.py),  *)
(* eye-anchored similarity alignment (src/face_alignment.py) and the run   *)
(* workflow (main.py).                                                     *)
(*                                                                         *)
(* Real numbers are exact extended rationals <<n, d>> with d >= 0:         *)
(* d > 0 is the finite value n/d in lowest terms, <<1,0>> and <<-1,0>> are *)
(* the IEEE infinities and <<0,0>> is NaN, so that the float64 results of  *)
(* a division by zero propagate as they do in numpy and OpenCV.            *)
(***************************************************************************)
EXTENDS Integers, Sequences, FiniteSets, TLC

VARIABLES
    pc,            \* position of the operation under study
    landmarks,     \* align_face: the 68-point landmark set (0-indexed)
    aligned,       \* align_face: its return value (None or a frame)
    input_files,   \* the input directory's files, in listing order
    processed_dir, \* the processed directory: file name -> the file saved there
    runs,          \* what each call of preprocess_images returned
    image_paths,   \* the path list handed to align_all_faces
    aligned_images,    \* the frames align_all_faces returned
    calls,         \* the paths process_image was called with, in order
    input_exists,  \* whether the input directory exists
    model_exists,  \* whether the landmark model file exists
    encoder_ok,    \* whether imageio.mimsave will succeed
    normalized_images, \* the frames normalize_brightness returned
    gif,           \* the frames of the animation file written, or None
    exit_code,     \* the result of the run, or None while it runs
    invoked,       \* the stages of run() invoked so far, in order
    detections,    \* detect_face: the regions the detector reports, in order
    detected       \* detect_face: its return value (None or a region)

vars == <<pc, landmarks, aligned, input_files, processed_dir, runs,
          image_paths, aligned_images, calls, input_exists, model_exists,
          encoder_ok, normalized_images, gif, exit_code, invoked,
          detections, detected>>

\* Python's None; also the value of an empty EXIF table, which the code
\* treats like a missing one
None == <<>>

\* the variables of the operations a specification leaves out
NoLandmarks == <<>>
AlignIdle == landmarks = NoLandmarks /\ aligned = None
PreIdle == input_files = <<>> /\ processed_dir = <<>> /\ runs = <<>>
FacesIdle == image_paths = <<>> /\ aligned_images = <<>> /\ calls = <<>>
RunIdle ==
    /\ input_exists = TRUE /\ model_exists = TRUE /\ encoder_ok = TRUE
    /\ normalized_images = <<>> /\ gif = None /\ exit_code = -1
    /\ invoked = <<>>

DetectIdle == detections = <<>> /\ detected = None

alignVars == <<landmarks, aligned>>
detectVars == <<detections, detected>>
preVars == <<input_files, processed_dir, runs>>
facesVars == <<image_paths, aligned_images, calls>>
runVars == <<input_exists, model_exists, encoder_ok, normalized_images, gif,
             exit_code, invoked>>

(***************************************************************************)
(* Extended rational arithmetic (float64 semantics for 0, inf, NaN).       *)
(***************************************************************************)
Abs(n) == IF n < 0 THEN -n ELSE n

Sign(n) == IF n < 0 THEN -1 ELSE IF n > 0 THEN 1 ELSE 0

RECURSIVE GCD(_, _)
GCD(a, b) == IF b = 0 THEN a ELSE GCD(b, a % b)

Norm(n, d) ==
    IF d = 0 THEN <<Sign(n), 0>>
    ELSE LET g == GCD(Abs(n), Abs(d))
             s == Sign(d)
         IN  <<(s * n) \div g, (s * d) \div g>>

R(n) == <<n, 1>>
NaN == <<0, 0>>
Inf == <<1, 0>>
IsNaN(a) == a[2] = 0 /\ a[1] = 0
IsInf(a) == a[2] = 0 /\ a[1] # 0
IsFinite(a) == a[2] > 0

RNeg(a) == <<-a[1], a[2]>>

RAdd(a, b) ==
    IF IsNaN(a) \/ IsNaN(b) THEN NaN
    ELSE IF IsInf(a) /\ IsInf(b) THEN (IF a[1] = b[1] THEN a ELSE NaN)
    ELSE IF IsInf(a) THEN a
    ELSE IF IsInf(b) THEN b
    ELSE Norm(a[1] * b[2] + b[1] * a[2], a[2] * b[2])

RSub(a, b) == RAdd(a, RNeg(b))

RMul(a, b) ==
    IF IsNaN(a) \/ IsNaN(b) THEN NaN
    ELSE Norm(a[1] * b[1], a[2] * b[2])

\* x / 0.0 is +-inf for x # 0 and NaN for x = 0; x / inf is 0; inf / inf is NaN.
RDiv(a, b) ==
    IF IsNaN(a) \/ IsNaN(b) THEN NaN
    ELSE IF IsInf(b) THEN (IF IsInf(a) THEN NaN ELSE R(0))
    ELSE IF b[1] = 0 THEN Norm(a[1], 0)
    ELSE RMul(a, Norm(b[2], b[1]))

RECURSIVE ISqrtBetween(_, _, _)
ISqrtBetween(n, lo, hi) ==
    IF lo >= hi THEN lo
    ELSE LET mid == (lo + hi + 1) \div 2
         IN  IF mid * mid <= n THEN ISqrtBetween(n, mid, hi)
             ELSE ISqrtBetween(n, lo, mid - 1)

\* floor of the square root; 46340 is the largest root of a 32-bit square
ISqrt(n) == ISqrtBetween(n, 0, IF n < 46340 THEN n ELSE 46340)

IsSquare(n) == n >= 0 /\ ISqrt(n) * ISqrt(n) = n

\* np.sqrt on a rational whose root is rational (the inputs are drawn so)
RSqrt(a) ==
    IF IsNaN(a) \/ a[1] < 0 THEN NaN
    ELSE IF IsInf(a) THEN a
    ELSE <<ISqrt(a[1]), ISqrt(a[2])>>

HasExactRoot(a) == IsFinite(a) /\ IsSquare(a[1]) /\ IsSquare(a[2])

(***************************************************************************)
(* settings.py                                                             *)
(***************************************************************************)
OUTPUT_SIZE == <<1024, 1024>>
EYE_Y_RATIO == <<7, 20>>           \* 0.35
EYE_X_RATIO_LEFT == <<7, 20>>      \* 0.35
EYE_X_RATIO_RIGHT == <<13, 20>>    \* 0.65

(***************************************************************************)
(* face_alignment.py: FaceAligner.align_face                               *)
(***************************************************************************)
\* landmarks[lo:hi].mean(axis=0): the centroid of the points lo .. hi-1
Mean(lm, lo, hi) ==
    LET RECURSIVE SumC(_, _)
        SumC(i, c) == IF i >= hi THEN 0 ELSE lm[i][c] + SumC(i + 1, c)
    IN  <<Norm(SumC(lo, 1), hi - lo), Norm(SumC(lo, 2), hi - lo)>>

\* np.arctan2(dy, dx) * 180 / np.pi, kept as the direction (cos, sin) that
\* cv2.getRotationMatrix2D recovers from it; arctan2(0, 0) is the angle 0.
Arctan2Deg(dy, dx, dist) ==
    IF IsFinite(dist) /\ dist[1] = 0 THEN [cos |-> R(1), sin |-> R(0)]
    ELSE [cos |-> RDiv(dx, dist), sin |-> RDiv(dy, dist)]

\* cv2.getRotationMatrix2D(center, angle, scale)
\*   [ alpha  beta  (1-alpha)*cx - beta*cy ]
\*   [ -beta  alpha beta*cx + (1-alpha)*cy ]
getRotationMatrix2D(center, angle, scale) ==
    LET alpha == RMul(scale, angle.cos)
        beta == RMul(scale, angle.sin)
        oneMinus == RSub(R(1), alpha)
    IN  << <<alpha, beta,
             RSub(RMul(oneMinus, center[1]), RMul(beta, center[2]))>>,
           <<RNeg(beta), alpha,
             RAdd(RMul(beta, center[1]), RMul(oneMinus, center[2]))>> >>

\* rot_mat[0, 2] += tx ; rot_mat[1, 2] += ty
AdjustTranslation(rot_mat, tx, ty) ==
    << <<rot_mat[1][1], rot_mat[1][2], RAdd(rot_mat[1][3], tx)>>,
       <<rot_mat[2][1], rot_mat[2][2], RAdd(rot_mat[2][3], ty)>> >>

\* the image of a source point under the 2x3 matrix handed to cv2.warpAffine
Apply(M, p) ==
    <<RAdd(RAdd(RMul(M[1][1], p[1]), RMul(M[1][2], p[2])), M[1][3]),
      RAdd(RAdd(RMul(M[2][1], p[1]), RMul(M[2][2], p[2])), M[2][3])>>

left_eye(lm) == Mean(lm, 36, 42)
right_eye(lm) == Mean(lm, 42, 48)

\* dx**2 + dy**2 of the two eye anchors
EyeDistSq(lm) ==
    LET dy == RSub(right_eye(lm)[2], left_eye(lm)[2])
        dx == RSub(right_eye(lm)[1], left_eye(lm)[1])
    IN  RAdd(RMul(dx, dx), RMul(dy, dy))

\* mutation: the face is rotated but not rescaled
ScaleOmitted(target_eye_dist, current_eye_dist) == R(1)

\* scale = target_eye_dist / current_eye_dist
Scale(target_eye_dist, current_eye_dist) ==
    RDiv(target_eye_dist, current_eye_dist)

\* align_face: the frame is the warped image, kept as the transform that
\* produced it and the path it was read from.  A division by the float 0.0
\* is a numpy warning, not an exception, so a frame is returned for every
\* landmark set; None is returned only when cv2.warpAffine raises.
align_face(image, lm, output_size, eye_y_ratio, eye_x_ratio_left, eye_x_ratio_right) ==
    LET le == left_eye(lm)
        re == right_eye(lm)
        target_left_x == RMul(R(output_size[1]), eye_x_ratio_left)
        target_right_x == RMul(R(output_size[1]), eye_x_ratio_right)
        target_y == RMul(R(output_size[2]), eye_y_ratio)
        dy == RSub(re[2], le[2])
        dx == RSub(re[1], le[1])
        current_eye_dist == RSqrt(RAdd(RMul(dx, dx), RMul(dy, dy)))
        angle == Arctan2Deg(dy, dx, current_eye_dist)
        target_eye_dist == RSub(target_right_x, target_left_x)
        scale == Scale(target_eye_dist, current_eye_dist)
        center == <<RAdd(le[1], RDiv(RSub(re[1], le[1]), R(2))),
                    RAdd(le[2], RDiv(RSub(re[2], le[2]), R(2)))>>
        rot_mat == AdjustTranslation(getRotationMatrix2D(center, angle, scale),
                                     RSub(target_left_x, le[1]),
                                     RSub(target_y, le[2]))
    IN  IF image.scene = "warp_error" THEN None
        ELSE [size |-> output_size, rot_mat |-> rot_mat, scale |-> scale,
              clahe |-> FALSE, path |-> image.path,
              depth |-> "uint8", channels |-> 3]

(***************************************************************************)
(* preprocessing.py: timestamps.                                           *)
(*                                                                         *)
(* A datetime is <<year, month, day, hour, minute, second>>; datetimes     *)
(* compare lexicographically, as naive datetime objects do.  An EXIF value *)
(* is [type, fields]: a text "Y:M:D h:m:s" with those six numbers, or a    *)
(* value of another type (bytes, int), on which strptime raises TypeError. *)
(* An input file is [stem, ext, exif, mtime, ok, scene]: exif is the       *)
(* stored sequence of <<tag, value>> pairs, mtime is st_mtime in           *)
(* seconds, ok tells whether PIL can decode the file, scene is what the    *)
(* face detector will find in its pixels.                                  *)
(***************************************************************************)
SKIP_EXISTING == TRUE

TAG_DATETIME == 306
TAG_DATETIME_ORIGINAL == 36867

IsLeap(y) == (y % 4 = 0 /\ y % 100 # 0) \/ y % 400 = 0

DaysInMonth(y, m) ==
    IF m = 2 THEN (IF IsLeap(y) THEN 29 ELSE 28)
    ELSE IF m \in {4, 6, 9, 11} THEN 30 ELSE 31

\* datetime.strptime(value, "%Y:%m:%d %H:%M:%S"): None stands for the
\* ValueError / TypeError the callers catch. The %S pattern matches 60 and
\* 61, but the datetime constructor then raises ValueError on them.
strptime(value) ==
    IF value.type # "str" THEN None
    ELSE LET f == value.fields
         IN  IF /\ f[1] \in 1..9999
                /\ f[2] \in 1..12
                /\ f[3] \in 1..DaysInMonth(f[1], f[2])
                /\ f[4] \in 0..23
                /\ f[5] \in 0..59
                /\ f[6] \in 0..59
             THEN f
             ELSE None

\* datetime.fromtimestamp(st_mtime), for times within the first day of the epoch
fromtimestamp(t) == <<1970, 1, 1, t \div 3600, (t \div 60) % 60, t % 60>>

RECURSIVE LexLess(_, _)
LexLess(a, b) ==
    IF a = <<>> \/ b = <<>> THEN FALSE
    ELSE IF Head(a) # Head(b) THEN Head(a) < Head(b)
    ELSE LexLess(Tail(a), Tail(b))

HasTag(exif, tag) == \E i \in 1..Len(exif) : exif[i][1] = tag
TagValue(exif, tag) == exif[CHOOSE i \in 1..Len(exif) : exif[i][1] = tag][2]

\* get_exif_datetime: the first stored entry whose tag is 306 or 36867
\* decides; an unparsable value there ends the search with None
get_exif_datetime(f) ==
    IF ~f.ok \/ f.exif = None THEN None
    ELSE LET hits == SelectSeq(f.exif,
                 LAMBDA e : e[1] \in {TAG_DATETIME, TAG_DATETIME_ORIGINAL})
         IN  IF hits = <<>> THEN None ELSE strptime(hits[1][2])

\* get_heic_exif_datetime: tag 36867 is tried first, then 306; an
\* unparsable value is passed over
get_heic_exif_datetime(f) ==
    IF ~f.ok \/ f.exif = None THEN None
    ELSE LET try(tag) == IF HasTag(f.exif, tag)
                         THEN strptime(TagValue(f.exif, tag)) ELSE None
         IN  IF try(TAG_DATETIME_ORIGINAL) # None THEN try(TAG_DATETIME_ORIGINAL)
             ELSE try(TAG_DATETIME)

get_file_datetime(f) == fromtimestamp(f.mtime)

\* x or y, for an Optional[datetime] x
Or(x, y) == IF x # None THEN x ELSE y

(***************************************************************************)
(* preprocessing.py: discovery, conversion, sort.                          *)
(***************************************************************************)
\* the lower-case form of the extensions in use
ExtLower(ext) ==
    CASE ext \in {"HEIC", "heic", "Heic"} -> "heic"
      [] ext \in {"JPG", "jpg", "Jpg"} -> "jpg"
      [] ext \in {"JPEG", "jpeg"} -> "jpeg"
      [] ext \in {"PNG", "png"} -> "png"
      [] OTHER -> ext

\* input_dir.glob("*.[Xx][Yy]..."): the files of the listing whose
\* extension is the pattern's in any letter case, in listing order
Glob(listing, pattern) ==
    SelectSeq(listing, LAMBDA f : ExtLower(f.ext) = pattern)

FileName(f) == <<f.stem, f.ext>>

\* heic_file.with_suffix(".jpg").name
WithSuffixJpg(f) == <<f.stem, "jpg">>

Exists(dir, path) == path \in DOMAIN dir

\* the directory after a file is saved under `path`
Save(dir, path, f) ==
    [p \in DOMAIN dir \cup {path} |-> IF p = path THEN f ELSE dir[p]]

\* heic_to_jpeg / the copy of step 2: succeed iff PIL can decode the file
Decodes(f) == f.ok

\* one round of the HEIC loop; st = [image_dates, dir, written]
HeicStep(st, heic_file) ==
    LET output_path == WithSuffixJpg(heic_file)
        date == Or(get_heic_exif_datetime(heic_file), get_file_datetime(heic_file))
        entry == [path |-> output_path, date |-> date, src |-> FileName(heic_file)]
    IN  IF SKIP_EXISTING /\ Exists(st.dir, output_path)
        THEN [st EXCEPT !.image_dates = Append(@, entry)]
        ELSE IF Decodes(heic_file)
        THEN [image_dates |-> Append(st.image_dates, entry),
              dir |-> Save(st.dir, output_path, heic_file),
              written |-> Append(st.written, FileName(heic_file))]
        ELSE st

\* one round of the JPEG/PNG loop
CopyStep(st, image_file) ==
    LET output_path == FileName(image_file)
        date == Or(get_exif_datetime(image_file), get_file_datetime(image_file))
        entry == [path |-> output_path, date |-> date, src |-> FileName(image_file)]
    IN  IF SKIP_EXISTING /\ Exists(st.dir, output_path)
        THEN [st EXCEPT !.image_dates = Append(@, entry)]
        ELSE IF Decodes(image_file)
        THEN [image_dates |-> Append(st.image_dates, entry),
              dir |-> Save(st.dir, output_path, image_file),
              written |-> Append(st.written, FileName(image_file))]
        ELSE st

RECURSIVE HeicLoop(_, _)
HeicLoop(st, files) ==
    IF files = <<>> THEN st ELSE HeicLoop(HeicStep(st, Head(files)), Tail(files))

RECURSIVE CopyLoop(_, _)
CopyLoop(st, files) ==
    IF files = <<>> THEN st ELSE CopyLoop(CopyStep(st, Head(files)), Tail(files))

\* mutation: an insertion that overtakes the entries of equal date
InsertBeforeEqual(sorted, e) ==
    LET n == Cardinality({i \in 1..Len(sorted) : LexLess(sorted[i].date, e.date)})
    IN  SubSeq(sorted, 1, n) \o <<e>> \o SubSeq(sorted, n + 1, Len(sorted))

\* insertion of e into a list sorted by date, behind every entry whose date
\* is not greater (a stable sort keeps equal keys in their original order)
InsertByDate(sorted, e) ==
    LET n == Cardinality({i \in 1..Len(sorted) : ~LexLess(e.date, sorted[i].date)})
    IN  SubSeq(sorted, 1, n) \o <<e>> \o SubSeq(sorted, n + 1, Len(sorted))

\* image_dates.sort(key=lambda x: x[1])
RECURSIVE SortByDate(_)
SortByDate(s) ==
    IF s = <<>> THEN <<>>
    ELSE InsertByDate(SortByDate(SubSeq(s, 1, Len(s) - 1)), s[Len(s)])

\* preprocess_images(input_dir, processed_dir): the sorted (path, date)
\* list behind the returned paths, the processed directory it leaves and
\* the sources it converted or copied, in order
preprocess_images(listing, dir) ==
    LET st0 == [image_dates |-> <<>>, dir |-> dir, written |-> <<>>]
        st1 == HeicLoop(st0, Glob(listing, "heic"))
        st2 == CopyLoop(st1, Glob(listing, "jpg"))
        st3 == CopyLoop(st2, Glob(listing, "jpeg"))
        st4 == CopyLoop(st3, Glob(listing, "png"))
    IN  [st4 EXCEPT !.image_dates = SortByDate(@)]

\* processed_images = [path for path, _ in image_dates]
Paths(image_dates) == [i \in 1..Len(image_dates) |-> image_dates[i].path]

(***************************************************************************)
(* Landmark sets the alignment is exercised on.                            *)
(***************************************************************************)
MaxEyeGap == 5      \* eye-to-eye offsets range over -MaxEyeGap .. MaxEyeGap

\* two eye contours (six points each); the second has a non-integer centroid
Contour(k) ==
    IF k = 1 THEN << <<-3, 0>>, <<-1, -1>>, <<1, -1>>, <<3, 0>>, <<1, 1>>, <<-1, 1>> >>
    ELSE << <<-3, 0>>, <<-1, -1>>, <<2, -1>>, <<4, 0>>, <<2, 1>>, <<-1, 1>> >>

MkLandmarks(L, gap, k) ==
    [i \in 0..67 |->
        IF i \in 36..41 THEN <<L[1] + Contour(k)[i - 35][1], L[2] + Contour(k)[i - 35][2]>>
        ELSE IF i \in 42..47
             THEN <<L[1] + gap[1] + Contour(k)[i - 41][1],
                    L[2] + gap[2] + Contour(k)[i - 41][2]>>
        ELSE L]

EyeOrigins == {<<100, 120>>, <<40, 300>>}

LandmarkSets ==
    {lm \in {MkLandmarks(L, <<gx, gy>>, k) :
                L \in EyeOrigins, gx \in -MaxEyeGap..MaxEyeGap,
                gy \in -MaxEyeGap..MaxEyeGap, k \in 1..2} :
        HasExactRoot(EyeDistSq(lm))}

(***************************************************************************)
(* face_alignment.py: the face locator and the alignment loop.             *)
(*                                                                         *)
(* The detector and the landmark predictor are external models; a file's   *)
(* scene names what they report on its pixels.  A region is                *)
(* [left, top, width, height].                                             *)
(***************************************************************************)
Rect(l, t, w, h) == [left |-> l, top |-> t, width |-> w, height |-> h]

Scenes ==
    {"face", "tilted", "collapsed", "noface", "crowd", "unreadable",
     "detector_error", "predictor_error", "warp_error"}

\* self.detector(image, 1): the regions reported, in detection order
Detections(scene) ==
    CASE scene = "noface" -> <<>>
      [] scene = "crowd" ->
            <<Rect(10, 10, 40, 40), Rect(200, 50, 80, 80), Rect(400, 60, 80, 80)>>
      [] OTHER -> <<Rect(60, 80, 90, 90)>>

\* cv2.imread: None when there is no such file or it cannot be decoded
imread(dir, image_path) ==
    IF ~Exists(dir, image_path) \/ dir[image_path].scene = "unreadable" THEN None
    ELSE [path |-> image_path, scene |-> dir[image_path].scene]

Area(d) == d.width * d.height

\* the scan of max(): the best region so far is replaced only by a region
\* whose key is strictly greater
RECURSIVE MaxScan(_, _)
MaxScan(best, rest) ==
    IF rest = <<>> THEN best
    ELSE MaxScan(IF Area(Head(rest)) > Area(best) THEN Head(rest) ELSE best,
                 Tail(rest))

\* mutation: a later region of equal area replaces the best so far
RECURSIVE MaxScanLast(_, _)
MaxScanLast(best, rest) ==
    IF rest = <<>> THEN best
    ELSE MaxScanLast(IF Area(Head(rest)) >= Area(best) THEN Head(rest) ELSE best,
                     Tail(rest))

MaxByAreaLast(dets) == MaxScanLast(Head(dets), Tail(dets))

\* max(dets, key=lambda d: d.width() * d.height())
MaxByArea(dets) == MaxScan(Head(dets), Tail(dets))

\* detect_face once the detector has returned dets
SelectFace(dets) ==
    IF Len(dets) = 0 THEN None
    ELSE IF Len(dets) > 1 THEN MaxByArea(dets)
    ELSE dets[1]

\* detect_face: None also when the detector raises
detect_face(image) ==
    IF image.scene = "detector_error" THEN None
    ELSE SelectFace(Detections(image.scene))

\* where the predictor puts the eyes of the face in `face`
EyeGap(scene) ==
    CASE scene = "collapsed" -> <<0, 0>>
      [] scene = "tilted" -> <<30, 40>>
      [] OTHER -> <<40, 0>>

get_landmarks(image, face) ==
    IF image.scene = "predictor_error" THEN None
    ELSE MkLandmarks(<<face.left + 20, face.top + 30>>, EyeGap(image.scene), 1)

process_image(image_path, dir) ==
    LET image == imread(dir, image_path)
    IN  IF image = None THEN None
        ELSE LET face == detect_face(image)
             IN  IF face = None THEN None
                 ELSE LET lm == get_landmarks(image, face)
                      IN  IF lm = None THEN None
                          ELSE align_face(image, lm, OUTPUT_SIZE, EYE_Y_RATIO,
                                          EYE_X_RATIO_LEFT, EYE_X_RATIO_RIGHT)

\* one round of the loop of align_all_faces; acc = [aligned_images, calls]
AlignStep(acc, image_path, dir) ==
    LET frame == process_image(image_path, dir)
    IN  [aligned_images |-> IF frame # None THEN Append(acc.aligned_images, frame)
                            ELSE acc.aligned_images,
         calls |-> Append(acc.calls, image_path)]

RECURSIVE AlignLoop(_, _, _)
AlignLoop(acc, paths, dir) ==
    IF paths = <<>> THEN acc
    ELSE AlignLoop(AlignStep(acc, Head(paths), dir), Tail(paths), dir)

\* mutation: the loop gives up at the first source that fails
RECURSIVE AlignLoopAborting(_, _, _)
AlignLoopAborting(acc, paths, dir) ==
    IF paths = <<>> THEN acc
    ELSE LET nxt == AlignStep(acc, Head(paths), dir)
         IN  IF Len(nxt.aligned_images) = Len(acc.aligned_images) THEN nxt
             ELSE AlignLoopAborting(nxt, Tail(paths), dir)

align_all_faces_aborting(paths, dir) ==
    AlignLoopAborting([aligned_images |-> <<>>, calls |-> <<>>], paths, dir)

align_all_faces(paths, dir) ==
    AlignLoop([aligned_images |-> <<>>, calls |-> <<>>], paths, dir)

(***************************************************************************)
(* normalization.py                                                        *)
(***************************************************************************)
\* cv2's CLAHE (and the LAB conversion before it) raise on a frame that
\* is not 8-bit
ClaheRaises(image) == image.depth # "uint8"

\* clahe_normalize: the frame with its luminance equalised (on L of LAB for
\* a 3-channel frame, directly otherwise); the frame itself when cv2 raises
clahe_normalize(image) ==
    IF ClaheRaises(image) THEN image ELSE [image EXCEPT !.clahe = TRUE]

\* mutation: a frame whose normalization failed is left out
normalize_brightness_dropping(images) ==
    LET kept == SelectSeq(images, LAMBDA im : ~ClaheRaises(im))
    IN  [i \in 1..Len(kept) |-> clahe_normalize(kept[i])]

normalize_brightness(images) ==
    [i \in 1..Len(images) |-> clahe_normalize(images[i])]

\* create_gif: False for an empty list or when the write fails; the file
\* holds the frames handed in
create_gif(images, writes) ==
    IF images = <<>> THEN [ok |-> FALSE, file |-> None]
    ELSE IF ~writes THEN [ok |-> FALSE, file |-> None]
    ELSE [ok |-> TRUE, file |-> images]

(***************************************************************************)
(* main.py: FaceGiffer                                                     *)
(***************************************************************************)
\* the files setup() counts: three patterns
image_count(listing) ==
    Len(Glob(listing, "heic")) + Len(Glob(listing, "jpg")) + Len(Glob(listing, "png"))

\* mutation: the model file is not looked for
setup_without_model_check(dir_exists, model_there, listing) ==
    IF ~dir_exists THEN FALSE
    ELSE image_count(listing) # 0

setup(dir_exists, model_there, listing) ==
    IF ~dir_exists THEN FALSE
    ELSE IF ~model_there THEN FALSE
    ELSE image_count(listing) # 0

\* create_output: the encoder is called only with a non-empty list
create_output(images, writes) ==
    IF images = <<>> THEN [ok |-> FALSE, file |-> None, encoder_called |-> FALSE]
    ELSE [ok |-> create_gif(images, writes).ok,
          file |-> create_gif(images, writes).file,
          encoder_called |-> TRUE]

\* mutation: the failure of create_output is not turned into sys.exit(1)
ResultIgnored(created) == 0

\* the end of run(): sys.exit(1) unless create_output reported success
Result(created) == IF created THEN 0 ELSE 1

(***************************************************************************)
(* Input directories the sequencer is exercised on.                        *)
(***************************************************************************)
MaxExifTags == 2    \* EXIF tables hold up to MaxExifTags entries
MaxFiles == 3       \* directories hold up to MaxFiles files
MaxRuns == 2        \* preprocess_images is called up to MaxRuns times

Text(fields) == [type |-> "str", fields |-> fields]

\* "1970:01:01 00:00:03", "1970:01:01 00:00:09", the unset value
\* "0000:00:00 00:00:00", the leap second "1970:01:01 00:00:60" and a
\* value that is no text
ExifValues ==
    {Text(<<1970, 1, 1, 0, 0, 3>>), Text(<<1970, 1, 1, 0, 0, 9>>),
     Text(<<0, 0, 0, 0, 0, 0>>), Text(<<1970, 1, 1, 0, 0, 60>>),
     [type |-> "bytes", fields |-> <<>>]}

\* DateTime, DateTimeOriginal and Make
ExifTags == {TAG_DATETIME, TAG_DATETIME_ORIGINAL, 271}

ExifTables ==
    {t \in UNION {[1..n -> ExifTags \X ExifValues] : n \in 0..MaxExifTags} :
        \A i, j \in 1..Len(t) : i # j => t[i][1] # t[j][1]}

DefaultScene == "face"

\* one file, every EXIF table
SingleFiles ==
    {[stem |-> "a", ext |-> e, exif |-> t, mtime |-> 5, ok |-> k,
      scene |-> DefaultScene] :
        e \in {"HEIC", "jpg", "jpeg", "png"}, t \in ExifTables, k \in BOOLEAN}

\* the two kinds of metadata of the files of a larger directory: no EXIF
\* and mtime 5, or DateTime = :07 stored before DateTimeOriginal = :05
Metas ==
    {[exif |-> <<>>, mtime |-> 5],
     [exif |-> << <<TAG_DATETIME, Text(<<1970, 1, 1, 0, 0, 7>>)>>,
                  <<TAG_DATETIME_ORIGINAL, Text(<<1970, 1, 1, 0, 0, 5>>)>> >>,
      mtime |-> 8]}

PoolFiles ==
    {[stem |-> st, ext |-> e, exif |-> m.exif, mtime |-> m.mtime, ok |-> k,
      scene |-> DefaultScene] :
        st \in {"a", "b"}, e \in {"HEIC", "jpg", "png"}, m \in Metas, k \in BOOLEAN}

DistinctNames(l) ==
    \A i, j \in 1..Len(l) : i # j => FileName(l[i]) # FileName(l[j])

Listings ==
    {l \in UNION {[1..n -> PoolFiles] : n \in 0..MaxFiles} : DistinctNames(l)}
    \cup {<<f>> : f \in SingleFiles}

(***************************************************************************)
(* The sequencer, called repeatedly on one input directory.                *)
(***************************************************************************)
InitPre ==
    /\ pc = "preprocess"
    /\ input_files \in Listings
    /\ processed_dir = <<>>
    /\ runs = <<>>
    /\ AlignIdle /\ FacesIdle /\ RunIdle /\ DetectIdle

PreprocessImages ==
    /\ pc = "preprocess"
    /\ Len(runs) < MaxRuns
    /\ LET res == preprocess_images(input_files, processed_dir)
       IN  /\ processed_dir' = res.dir
           /\ runs' = Append(runs, [image_dates |-> res.image_dates,
                                    written |-> res.written])
    /\ UNCHANGED <<detectVars, pc, input_files, alignVars, facesVars, runVars>>

NextPre == PreprocessImages

SpecPre == InitPre /\ [][NextPre]_vars

(***************************************************************************)
(* Alignment of one landmark set.                                          *)
(***************************************************************************)
SampleImage == [path |-> <<"a", "jpg">>, scene |-> "face"]

InitAlign ==
    /\ pc = "align"
    /\ landmarks \in LandmarkSets
    /\ aligned = None
    /\ PreIdle /\ FacesIdle /\ RunIdle /\ DetectIdle

AlignFace ==
    /\ pc = "align"
    /\ aligned' = align_face(SampleImage, landmarks, OUTPUT_SIZE, EYE_Y_RATIO,
                             EYE_X_RATIO_LEFT, EYE_X_RATIO_RIGHT)
    /\ pc' = "aligned"
    /\ UNCHANGED <<detectVars, landmarks, preVars, facesVars, runVars>>

NextAlign == AlignFace

SpecAlign == InitAlign /\ [][NextAlign]_vars

(***************************************************************************)
(* The alignment loop on a list of processed files.                        *)
(***************************************************************************)
MaxPaths == 3       \* align_all_faces is handed up to MaxPaths paths

Stored(st, e, sc) ==
    [stem |-> st, ext |-> e, exif |-> <<>>, mtime |-> 5, ok |-> TRUE, scene |-> sc]

FaceDirs ==
    {[n \in {<<"a", "jpg">>, <<"b", "jpg">>} |->
        Stored(n[1], n[2], IF n[1] = "a" THEN sa ELSE sb)] :
        sa \in Scenes, sb \in Scenes}

InitFaces ==
    /\ pc = "align_all"
    /\ processed_dir \in FaceDirs
    /\ image_paths \in UNION {[1..n -> DOMAIN processed_dir] : n \in 0..MaxPaths}
    /\ aligned_images = <<>>
    /\ calls = <<>>
    /\ input_files = <<>>
    /\ runs = <<>>
    /\ AlignIdle /\ RunIdle /\ DetectIdle

AlignAllFaces ==
    /\ pc = "align_all"
    /\ LET res == align_all_faces(image_paths, processed_dir)
       IN  /\ aligned_images' = res.aligned_images
           /\ calls' = res.calls
    /\ pc' = "aligned_all"
    /\ UNCHANGED <<detectVars, image_paths, alignVars, preVars, runVars>>

NextFaces == AlignAllFaces

SpecFaces == InitFaces /\ [][NextFaces]_vars

(***************************************************************************)
(* The choice of a face among the regions the detector reports.            *)
(***************************************************************************)
MaxDets == 3        \* the detector reports up to MaxDets regions

\* regions of areas 1600, 6400, 6400 (another shape), 6400 (elsewhere), 8100
Regions ==
    {Rect(10, 10, 40, 40), Rect(200, 50, 80, 80), Rect(300, 20, 64, 100),
     Rect(400, 60, 80, 80), Rect(60, 80, 90, 90)}

InitDetect ==
    /\ pc = "detect"
    /\ detections \in UNION {[1..n -> Regions] : n \in 0..MaxDets}
    /\ detected = None
    /\ AlignIdle /\ PreIdle /\ FacesIdle /\ RunIdle

DetectFace ==
    /\ pc = "detect"
    /\ detected' = SelectFace(detections)
    /\ pc' = "detected"
    /\ UNCHANGED <<detections, alignVars, preVars, facesVars, runVars>>

NextDetect == DetectFace

SpecDetect == InitDetect /\ [][NextDetect]_vars

(***************************************************************************)
(* Brightness normalization of a list of frames.                           *)
(***************************************************************************)
MaxFrames == 3      \* normalize_brightness is handed up to MaxFrames frames

\* frames as align_face makes them, and their grayscale and float variants
NormFrames ==
    {[align_face([path |-> <<st, "jpg">>, scene |-> "face"],
                 MkLandmarks(<<80, 110>>, <<40, 0>>, 1), OUTPUT_SIZE,
                 EYE_Y_RATIO, EYE_X_RATIO_LEFT, EYE_X_RATIO_RIGHT)
        EXCEPT !.depth = d, !.channels = c] :
        st \in {"a", "b"}, d \in {"uint8", "float32"}, c \in {1, 3}}

InitNorm ==
    /\ pc = "normalize"
    /\ aligned_images \in UNION {[1..n -> NormFrames] : n \in 0..MaxFrames}
    /\ image_paths = <<>>
    /\ calls = <<>>
    /\ AlignIdle /\ PreIdle /\ RunIdle /\ DetectIdle

NormalizeBrightness ==
    /\ pc = "normalize"
    /\ normalized_images' = normalize_brightness(aligned_images)
    /\ pc' = "normalized"
    /\ UNCHANGED <<detectVars, alignVars, preVars, facesVars, input_exists,
                   model_exists, encoder_ok, gif, exit_code, invoked>>

NextNorm == NormalizeBrightness

SpecNorm == InitNorm /\ [][NextNorm]_vars

(***************************************************************************)
(* FaceGiffer.run()                                                        *)
(***************************************************************************)
MaxRunFiles == 2    \* the input directory of a run holds up to MaxRunFiles files

RunFiles ==
    {[stem |-> n[1], ext |-> n[2], exif |-> <<>>, mtime |-> 5, ok |-> k,
      scene |-> sc] :
        n \in {<<"a", "HEIC">>, <<"a", "jpg">>, <<"b", "jpeg">>, <<"c", "txt">>},
        k \in BOOLEAN, sc \in {"face", "noface", "collapsed"}}

RunListings ==
    {l \in UNION {[1..n -> RunFiles] : n \in 0..MaxRunFiles} : DistinctNames(l)}

InitRun ==
    /\ pc = "run_setup"
    /\ input_exists \in BOOLEAN
    /\ model_exists \in BOOLEAN
    /\ encoder_ok \in BOOLEAN
    /\ input_files \in (IF input_exists THEN RunListings ELSE {<<>>})
    /\ processed_dir = <<>>
    /\ runs = <<>>
    /\ normalized_images = <<>>
    /\ gif = None
    /\ exit_code = -1
    /\ invoked = <<>>
    /\ AlignIdle /\ FacesIdle /\ DetectIdle

\* if not self.setup(): sys.exit(1)
Setup ==
    /\ pc = "run_setup"
    /\ invoked' = Append(invoked, "setup")
    /\ IF setup(input_exists, model_exists, input_files)
       THEN pc' = "run_preprocess" /\ UNCHANGED exit_code
       ELSE pc' = "exit" /\ exit_code' = 1
    /\ UNCHANGED <<detectVars, alignVars, preVars, facesVars, input_exists, model_exists,
                   encoder_ok, normalized_images, gif>>

\* images = self.preprocess(); if not images: sys.exit(1)
Preprocess ==
    /\ pc = "run_preprocess"
    /\ invoked' = Append(invoked, "preprocess")
    /\ LET res == preprocess_images(input_files, processed_dir)
       IN  /\ processed_dir' = res.dir
           /\ image_paths' = Paths(res.image_dates)
           /\ IF res.image_dates = <<>>
              THEN pc' = "exit" /\ exit_code' = 1
              ELSE pc' = "run_align" /\ UNCHANGED exit_code
    /\ UNCHANGED <<detectVars, alignVars, input_files, runs, aligned_images, calls,
                   input_exists, model_exists, encoder_ok, normalized_images, gif>>

\* aligned_images = self.align_faces(images); if not aligned_images: sys.exit(1)
AlignFaces ==
    /\ pc = "run_align"
    /\ invoked' = Append(invoked, "align_faces")
    /\ LET res == align_all_faces(image_paths, processed_dir)
       IN  /\ aligned_images' = res.aligned_images
           /\ calls' = res.calls
           /\ IF res.aligned_images = <<>>
              THEN pc' = "exit" /\ exit_code' = 1
              ELSE pc' = "run_normalize" /\ UNCHANGED exit_code
    /\ UNCHANGED <<detectVars, alignVars, preVars, image_paths, input_exists, model_exists,
                   encoder_ok, normalized_images, gif>>

\* normalized_images = self.normalize(aligned_images)
Normalize ==
    /\ pc = "run_normalize"
    /\ invoked' = Append(invoked, "normalize")
    /\ normalized_images' = normalize_brightness(aligned_images)
    /\ pc' = "run_create"
    /\ UNCHANGED <<detectVars, alignVars, preVars, facesVars, input_exists, model_exists,
                   encoder_ok, gif, exit_code>>

\* if self.create_output(normalized_images): ... else: sys.exit(1)
CreateOutput ==
    /\ pc = "run_create"
    /\ LET res == create_output(normalized_images, encoder_ok)
       IN  /\ invoked' = invoked \o <<"create_output">>
                            \o (IF res.encoder_called THEN <<"create_gif">> ELSE <<>>)
           /\ gif' = res.file
           /\ exit_code' = Result(res.ok)
    /\ pc' = "exit"
    /\ UNCHANGED <<detectVars, alignVars, preVars, facesVars, input_exists, model_exists,
                   encoder_ok, normalized_images>>

NextRun == Setup \/ Preprocess \/ AlignFaces \/ Normalize \/ CreateOutput

SpecRun == InitRun /\ [][NextRun]_vars

(***************************************************************************)
(* Properties of the aligned output (checked under SpecAlign).             *)
(***************************************************************************)
TargetLeftX == RMul(R(OUTPUT_SIZE[1]), EYE_X_RATIO_LEFT)
TargetRightX == RMul(R(OUTPUT_SIZE[1]), EYE_X_RATIO_RIGHT)
TargetY == RMul(R(OUTPUT_SIZE[2]), EYE_Y_RATIO)

DistinctEyes == left_eye(landmarks) # right_eye(landmarks)
Rotated == left_eye(landmarks)[2] # right_eye(landmarks)[2]

MappedLeft == Apply(aligned.rot_mat, left_eye(landmarks))
MappedRight == Apply(aligned.rot_mat, right_eye(landmarks))
MappedMid ==
    <<RDiv(RAdd(MappedLeft[1], MappedRight[1]), R(2)),
      RDiv(RAdd(MappedLeft[2], MappedRight[2]), R(2))>>
MappedDist ==
    LET ex == RSub(MappedRight[1], MappedLeft[1])
        ey == RSub(MappedRight[2], MappedLeft[2])
    IN  RSqrt(RAdd(RMul(ex, ex), RMul(ey, ey)))

\* C3: for distinct eye anchors, the midpoint of the two anchors mapped
\* through the transform of align_face lies at y = eye_y_ratio * height.
C3_MidpointAtTargetY ==
    (pc = "aligned" /\ DistinctEyes) => MappedMid[2] = TargetY

\* C4: for distinct eye anchors, the distance between the two mapped eye
\* anchors equals (eye_x_ratio_right - eye_x_ratio_left) * width, whatever
\* the inter-eye distance and rotation in the source.
C4_TargetEyeDistance ==
    (pc = "aligned" /\ DistinctEyes) =>
        MappedDist = RSub(TargetRightX, TargetLeftX)

\* a rotated face whose scale is not 1 has been aligned
C4_Witness ==
    /\ pc = "aligned"
    /\ DistinctEyes
    /\ Rotated
    /\ IsFinite(aligned.scale) /\ aligned.scale # R(1)

\* C10: for distinct eye anchors, the left-eye anchor mapped through the
\* final transform lands exactly at (width * eye_x_ratio_left,
\* height * eye_y_ratio).
C10_LeftEyeAtTarget ==
    (pc = "aligned" /\ DistinctEyes) => MappedLeft = <<TargetLeftX, TargetY>>


(***************************************************************************)
(* Properties of the sequencer (checked under SpecPre).                    *)
(***************************************************************************)
\* the order in which preprocess_images meets the files
Discovery ==
    Glob(input_files, "heic") \o Glob(input_files, "jpg")
        \o Glob(input_files, "jpeg") \o Glob(input_files, "png")

DiscoveryIndex(src) ==
    CHOOSE i \in 1..Len(Discovery) : FileName(Discovery[i]) = src

FileOf(src) ==
    input_files[CHOOSE i \in 1..Len(input_files) : FileName(input_files[i]) = src]

\* C1: the list returned by preprocess_images is sorted non-decreasing by
\* resolved timestamp, and entries with identical timestamps keep the order
\* in which they were discovered.
C1_SortedStable ==
    \A r \in 1..Len(runs) :
        LET d == runs[r].image_dates
        IN  \A i, j \in 1..Len(d) :
                i < j =>
                    /\ ~LexLess(d[j].date, d[i].date)
                    /\ d[i].date = d[j].date =>
                           DiscoveryIndex(d[i].src) < DiscoveryIndex(d[j].src)

\* a returned list in which two entries tie and the sort moved an entry
\* ahead of one discovered before it
C1_Witness ==
    \E r \in 1..Len(runs) :
        LET d == runs[r].image_dates
        IN  /\ \E i, j \in 1..Len(d) : i < j /\ d[i].date = d[j].date
            /\ \E i, j \in 1..Len(d) :
                   i < j /\ DiscoveryIndex(d[i].src) > DiscoveryIndex(d[j].src)

\* the timestamp policy of the specification
Parsable(f, tag) ==
    f.ok /\ HasTag(f.exif, tag) /\ strptime(TagValue(f.exif, tag)) # None

Policy(f) ==
    IF Parsable(f, TAG_DATETIME_ORIGINAL)
    THEN TagValue(f.exif, TAG_DATETIME_ORIGINAL).fields
    ELSE IF Parsable(f, TAG_DATETIME) THEN TagValue(f.exif, TAG_DATETIME).fields
    ELSE fromtimestamp(f.mtime)

\* C2: for every source the resolved timestamp is tag 36867 when present
\* and parsable, otherwise tag 306 when present and parsable, otherwise the
\* file's modification time, whatever the stored order of the tags.
C2_TimestampPolicy ==
    \A r \in 1..Len(runs) :
        \A i \in 1..Len(runs[r].image_dates) :
            runs[r].image_dates[i].date = Policy(FileOf(runs[r].image_dates[i].src))

Written(r) == {runs[r].written[i] : i \in 1..Len(runs[r].written)}

\* C9: a second run on the same input and the processed directory left by
\* the first converts or re-saves no file the first run converted, and
\* returns a list of the same length, also when a conversion had failed.
C9_IdempotentRerun ==
    Len(runs) >= 2 =>
        /\ Written(1) \cap Written(2) = {}
        /\ Len(runs[2].image_dates) = Len(runs[1].image_dates)

(***************************************************************************)
(* Properties of the alignment loop (checked under SpecFaces).             *)
(***************************************************************************)
\* C5: coincident eye anchors are an alignment failure: no frame is ever
\* produced from a transform whose scale is infinite or NaN.
C5_DegenerateRejected ==
    \A i \in 1..Len(aligned_images) : IsFinite(aligned_images[i].scale)

\* loading, detection, landmark extraction and alignment all succeed
StagesSucceed(image_path) ==
    LET image == imread(processed_dir, image_path)
    IN  /\ image # None
        /\ detect_face(image) # None
        /\ get_landmarks(image, detect_face(image)) # None
        /\ align_face(image, get_landmarks(image, detect_face(image)),
                      OUTPUT_SIZE, EYE_Y_RATIO, EYE_X_RATIO_LEFT,
                      EYE_X_RATIO_RIGHT) # None

FramePaths(frames) == [i \in 1..Len(frames) |-> frames[i].path]

\* C6: the frames returned by align_all_faces are exactly the subsequence,
\* in order, of the input paths whose stages all succeeded, and every entry
\* of the path list is processed once, in order, whatever fails.
C6_FramesAreSubsequence ==
    pc = "aligned_all" =>
        /\ calls = image_paths
        /\ FramePaths(aligned_images) = SelectSeq(image_paths, StagesSucceed)

\* a failing source between two successful ones
C6_Witness ==
    /\ pc = "aligned_all"
    /\ \E i, j, k \in 1..Len(image_paths) :
           /\ i < j /\ j < k
           /\ StagesSucceed(image_paths[i])
           /\ ~StagesSucceed(image_paths[j])
           /\ StagesSucceed(image_paths[k])
    /\ Len(aligned_images) >= 2

(***************************************************************************)
(* Properties of the run (checked under SpecRun).                          *)
(***************************************************************************)
Invoked(stage) == \E i \in 1..Len(invoked) : invoked[i] = stage

PreconditionFails ==
    ~input_exists \/ ~model_exists \/ image_count(input_files) = 0

Failed == pc = "exit" /\ exit_code = 1

\* C7: with the input directory or the model missing, or no image
\* discovered, the run ends with a non-zero result before preprocess,
\* align_faces, normalize or create_output is invoked, and writes no file.
C7_PreconditionAborts ==
    PreconditionFails =>
        /\ ~Invoked("preprocess") /\ ~Invoked("align_faces")
        /\ ~Invoked("normalize") /\ ~Invoked("create_output")
        /\ ~Invoked("create_gif")
        /\ gif = None
        /\ processed_dir = <<>>
        /\ pc # "run_setup" => Failed

\* a run that ended on a missing model although images were there
C7_Witness ==
    /\ Failed
    /\ input_exists /\ ~model_exists /\ image_count(input_files) > 0

\* C8: a run succeeds only if a frame survived preprocessing and alignment
\* and the encoder succeeded; an exhausted stage or a failed encoder ends the
\* run with a non-zero result, the encoder not being invoked after an
\* exhausted stage.
C8_SuccessNeedsFrames ==
    /\ (pc = "exit" /\ exit_code = 0) =>
           /\ image_paths # <<>> /\ aligned_images # <<>>
           /\ encoder_ok /\ gif # None
    /\ (Invoked("preprocess") /\ image_paths = <<>>) =>
           Failed /\ ~Invoked("create_gif")
    /\ (Invoked("align_faces") /\ aligned_images = <<>>) =>
           Failed /\ ~Invoked("create_gif")
    /\ (Invoked("create_output") /\ normalized_images = <<>>) =>
           Failed /\ ~Invoked("create_gif")
    /\ (Invoked("create_gif") /\ ~encoder_ok) => Failed /\ gif = None

\* a run whose encoder failed on a non-empty frame list
C8_Witness ==
    /\ Failed
    /\ Invoked("create_gif") /\ ~encoder_ok
    /\ normalized_images # <<>>

(***************************************************************************)
(* Properties of the face choice (checked under SpecDetect).               *)
(***************************************************************************)
\* C11: detect_face returns failure for zero regions, the region for one,
\* and for several the first region, in detection order, among those of
\* maximal width * height.
C11_LargestFirstFace ==
    pc = "detected" =>
        /\ Len(detections) = 0 => detected = None
        /\ Len(detections) = 1 => detected = detections[1]
        /\ Len(detections) > 1 =>
               \E i \in 1..Len(detections) :
                   /\ detected = detections[i]
                   /\ \A j \in 1..Len(detections) :
                          Area(detections[j]) <= Area(detections[i])
                   /\ \A j \in 1..(i - 1) :
                          Area(detections[j]) < Area(detections[i])

\* several regions, two different ones tying for the largest area
C11_Witness ==
    /\ pc = "detected"
    /\ \E i, j \in 1..Len(detections) :
           /\ i < j
           /\ detections[i] # detections[j]
           /\ Area(detections[i]) = Area(detections[j])
           /\ \A k \in 1..Len(detections) :
                  Area(detections[k]) <= Area(detections[i])
           /\ detected = detections[i]

(***************************************************************************)
(* Discovery and output names (checked under SpecRun and SpecPre).         *)
(***************************************************************************)
\* C12: setup() counts the files preprocess_images discovers: it reports
\* "no images found" exactly when preprocess_images would find no file.
C12_SetupMatchesDiscovery ==
    (pc # "run_setup" /\ input_exists /\ model_exists) =>
        ((Failed /\ ~Invoked("preprocess")) <=> Len(Discovery) = 0)

\* C13: the list returned by preprocess_images holds no path twice: two
\* input files never resolve to the same processed path.
C13_DistinctProcessedPaths ==
    \A r \in 1..Len(runs) :
        \A i, j \in 1..Len(runs[r].image_dates) :
            i # j => runs[r].image_dates[i].path # runs[r].image_dates[j].path

(***************************************************************************)
(* Properties of the normalization (checked under SpecNorm).               *)
(***************************************************************************)
\* C14: normalize_brightness returns a list of the same length and order:
\* frame i of the output is frame i of the input, equalised, or unchanged
\* when its normalization fails; no frame is dropped.
C14_PerFrameSameLength ==
    pc = "normalized" =>
        /\ Len(normalized_images) = Len(aligned_images)
        /\ \A i \in 1..Len(aligned_images) :
               IF aligned_images[i].depth = "uint8"
               THEN /\ normalized_images[i].clahe
                    /\ [normalized_images[i] EXCEPT !.clahe = FALSE]
                           = aligned_images[i]
               ELSE normalized_images[i] = aligned_images[i]

\* a frame whose normalization fails, ahead of one that is equalised
C14_Witness ==
    /\ pc = "normalized"
    /\ \E i, j \in 1..Len(aligned_images) :
           /\ i < j
           /\ aligned_images[i].depth # "uint8"
           /\ aligned_images[j].depth = "uint8"
           /\ aligned_images[i].path # aligned_images[j].path
    /\ Len(normalized_images) >= 2

====
